---- MODULE Spec2Model ----
(***************************************************************************)
(* pi-search: the web_fetch and web_search tools of src/index.ts.          *)
(*                                                                         *)
(* Three specifications share the variables of this module:                *)
(*   Spec        one invocation of web_fetch.execute (smartFetch,          *)
(*               fetchStatic, fetchWithPlaywright), one step per await;    *)
(*   SpecSearch  one invocation of web_search.execute (resolveAuth,        *)
(*               openaiWebSearch, parseSSEResponse);                       *)
(*   SpecParse   parseSSEResponse alone, over every bounded body;          *)
(*   SpecExtract, SpecToken, SpecSnippet, SpecLinks, SpecPolicy            *)
(*               one call of a pure helper or of the policy hook.          *)
(*                                                                         *)
(* Strings whose characters matter (url, query) are sequences of one-      *)
(* character strings. Texts of which only the length matters (bodies,      *)
(* markdown) are represented by their length in UTF-16 code units, which   *)
(* is what String.length measures in the source.                           *)
(***************************************************************************)
EXTENDS Integers, Sequences, FiniteSets, TLC

VARIABLES
    \* ---- web_fetch.execute / smartFetch -------------------------------
    fpc,        \* position in web_fetch.execute and its callees
    fparams,    \* params of the tool call: [url, playwright]
    furl,       \* const url = params.url?.trim()
    calls,      \* entry points invoked so far, in invocation order
    timer,      \* the abort timer of fetchStatic
    browser,    \* the browser of fetchWithPlaywright
    light,      \* what fetchStatic has obtained so far
    lightArticle, \* `result` of line 377: htmlToMarkdown on the fetched html
    heavyArticle, \* `result` of line 389: htmlToMarkdown on the rendered html
    rendered,   \* html captured by fetchWithPlaywright
    pwErr,      \* exception pending inside fetchWithPlaywright's try block
    fresult,    \* settlement of the smartFetch promise
    fout,       \* what web_fetch.execute hands to the host
    \* ---- web_search.execute -------------------------------------------
    spc,        \* position in web_search.execute and its callees
    sparams,    \* params of the tool call: [query]
    env,        \* process.env, model registry and module loader
    auth,       \* result of resolveAuth
    request,    \* the request issued by openaiWebSearch
    stimer,     \* the abort timer of openaiWebSearch
    sout,       \* what web_search.execute hands to the host
    \* ---- parseSSEResponse ---------------------------------------------
    body,       \* response text, as a sequence of lines
    ppc,        \* position in parseSSEResponse
    lineNo,     \* index of the next line of the for-of loop
    parsed,     \* settlement of the parseSSEResponse promise
    \* ---- pure helpers and the policy hook, called on their own ---------
    tpc,        \* position of the call: "idle", "ready" or "done"
    arg,        \* the arguments of the call
    ret         \* what the call returned

fetchVars  == <<fpc, fparams, furl, calls, timer, browser, light, lightArticle,
                heavyArticle, rendered, pwErr, fresult, fout>>
searchVars == <<spc, sparams, env, auth, request, stimer, sout>>
parseVars  == <<body, ppc, lineNo, parsed>>
pureVars   == <<tpc, arg, ret>>
vars       == <<fetchVars, searchVars, parseVars, pureVars>>

(***************************************************************************)
(* Bounds                                                                  *)
(***************************************************************************)
MaxUrlLen == 2
MaxQueryLen == 2
MaxLines == 3
MaxSearchLines == 1
MaxItems == 2         \* items of a response's output
MaxRefs == 1          \* annotations or sources of one output item
MaxParts == 4         \* segments of a credential string
MaxIdLen == 2         \* characters of an account id
MaxPad == 1           \* runs before and after the link of a text
MaxHrefs == 2         \* href attributes of an article
MaxCommandLen == 2    \* tokens of a shell command
MaxLink == 2          \* characters of a link's label and of its target

(***************************************************************************)
(* Program constants                                                       *)
(***************************************************************************)
DEFAULT_MAX_BYTES == 50000
ArticleFloor      == 200
SnippetRadius     == 100
SnippetMax        == 300

\* undefined
None == [kind |-> "none"]

\* a variable the code has not assigned yet
Unset == [kind |-> "unset"]

(***************************************************************************)
(* String helpers                                                          *)
(***************************************************************************)
Chars == {" ", "x"}

SeqsUpTo(S, n) == UNION {[1..k -> S] : k \in 0..n}

IsSpace(c) == c = " "

RECURSIVE TrimStart(_)
TrimStart(s) ==
    IF s = <<>> THEN <<>>
    ELSE IF IsSpace(Head(s)) THEN TrimStart(Tail(s)) ELSE s

RECURSIVE TrimEnd(_)
TrimEnd(s) ==
    IF s = <<>> THEN <<>>
    ELSE IF IsSpace(s[Len(s)]) THEN TrimEnd(SubSeq(s, 1, Len(s) - 1)) ELSE s

\* String.prototype.trim
Trim(s) == TrimEnd(TrimStart(s))

\* String.prototype.includes, over a header value split into tokens
Includes(s, tok) == \E i \in 1..Len(s) : s[i] = tok

(***************************************************************************)
(* Inputs of web_fetch                                                     *)
(***************************************************************************)
Urls == SeqsUpTo(Chars, MaxUrlLen)

\* params.playwright is Type.Optional(Type.Boolean)
PlaywrightFlags == {"undefined", "true", "false"}

Statuses == {200, 299, 300, 404, 500}

Ok_Below400(status) == status \in 200..399

\* Response.ok
Ok(status) == status \in 200..299

\* response.headers.get("content-type") ?? ""
ContentTypes ==
    { <<>>,
      <<"text", "/", "html">>,
      <<"application", "/", "xhtml", "+", "xml">>,
      <<"text", "/", "html", ";", "charset=utf-8">>,
      <<"application", "/", "json">>,
      <<"text", "/", "plain">> }

BodyLens == {0, DEFAULT_MAX_BYTES - 1, DEFAULT_MAX_BYTES, DEFAULT_MAX_BYTES + 1}

\* What Readability + Turndown can produce: markdown of `len` code units of
\* which `pad` are leading or trailing white space, a title and a link list.
Articles ==
    [kind  : {"article"},
     len   : {0, ArticleFloor, ArticleFloor + 1, ArticleFloor + 5,
              ArticleFloor + 6},
     pad   : {0, 5},
     title : {<<"T">>},
     links : {<<>>, <<"https://l1">>}]

ReachableArticles == {a \in Articles : a.pad <= a.len}

TrimmedLength_Untrimmed(a) == a.len

\* result.markdown.trim().length
TrimmedLength(a) == a.len - a.pad

\* htmlToMarkdown returns an article or undefined (line 291); which one is
\* decided by the DOM parser and the readability heuristic.
htmlToMarkdown == ReachableArticles \cup {None}

\* html captured by page.content(): its length and the length of the flat
\* text the tag-stripping substitutions of lines 395-400 leave.
RenderedDocs == { [len |-> 0, text |-> 0], [len |-> 120, text |-> 40] }

(***************************************************************************)
(* Values                                                                  *)
(***************************************************************************)
\* new Error(msg); `code` carries the HTTP status of `HTTP ${status}`
Err(msg, code) ==
    [kind |-> "error", msg |-> msg, code |-> code, wraps |-> "", hint |-> ""]

PlaywrightFetchFailed_Rethrow(err) == err

\* new Error(`Playwright fetch failed: ${err.message}. Try with a different URL.`)
PlaywrightFetchFailed(err) ==
    [kind  |-> "error",
     msg   |-> "Playwright fetch failed",
     code  |-> err.code,
     wraps |-> err.msg,
     hint  |-> "Try with a different URL."]

Fulfilled(v) == [kind |-> "fulfilled", value |-> v]
Rejected(e)  == [kind |-> "rejected", error |-> e]

\* A tool response: { content: [{type: "text", text}], isError?, details? }
ToolError(text, e) ==
    [kind |-> "response", isError |-> TRUE, text |-> text, cause |-> e,
     method |-> "", linkCount |-> 0]
ToolPage(r) ==
    [kind |-> "response", isError |-> FALSE, text |-> "page", cause |-> None,
     method |-> r.method, linkCount |-> Len(r.links)]

\* An exception that leaves execute() and reaches the host
Thrown(e) == [kind |-> "thrown", error |-> e]

\* what a helper called on its own returned
Returned(fn, value) == [kind |-> "returned", fn |-> fn, value |-> value]

(***************************************************************************)
(* web_fetch.execute, lines 486-532                                        *)
(***************************************************************************)
InitFetch ==
    /\ fpc = "execute"
    /\ fparams \in [url : Urls, playwright : PlaywrightFlags]
    /\ furl = <<>>
    /\ calls = <<>>
    /\ timer = "unset"
    /\ browser = "none"
    /\ light = Unset
    /\ lightArticle = Unset
    /\ heavyArticle = Unset
    /\ rendered = Unset
    /\ pwErr = None
    /\ fresult = Unset
    /\ fout = Unset

\* params.playwright ?? false
forcePlaywright_Never == FALSE

forcePlaywright == fparams.playwright = "true"

\* lines 487-495: validation, then the call of smartFetch
web_fetch_execute ==
    /\ UNCHANGED <<searchVars, parseVars>>
    /\ UNCHANGED pureVars
    /\ fpc = "execute"
    /\ furl' = Trim(fparams.url)
    /\ IF furl' = <<>>
       THEN /\ fout' = ToolError("Error: empty url.", None)
            /\ fpc' = "returned"
       ELSE /\ fout' = fout
            /\ fpc' = "smartFetch"
    /\ UNCHANGED <<fparams, calls, timer, browser, light, lightArticle, heavyArticle, rendered,
                   pwErr, fresult>>

\* line 364: the tier smartFetch enters first
smartFetch_enter ==
    /\ UNCHANGED <<searchVars, parseVars>>
    /\ UNCHANGED pureVars
    /\ fpc = "smartFetch"
    /\ fpc' = IF ~forcePlaywright THEN "fetchStatic" ELSE "fetchWithPlaywright"
    /\ UNCHANGED <<fparams, furl, calls, timer, browser, light, lightArticle, heavyArticle,
                   rendered, pwErr, fresult, fout>>

(***************************************************************************)
(* fetchStatic, lines 313-338                                              *)
(***************************************************************************)
\* lines 314-326: arm the timer, issue the request
fetchStatic_start ==
    /\ UNCHANGED <<searchVars, parseVars>>
    /\ UNCHANGED pureVars
    /\ fpc = "fetchStatic"
    /\ calls' = Append(calls, "fetchStatic")
    /\ timer' = "armed"
    /\ fpc' = "fetch_inflight"
    /\ UNCHANGED <<fparams, furl, browser, light, lightArticle, heavyArticle, rendered, pwErr,
                   fresult, fout>>

\* the timer callback of line 315 runs: controller.abort() rejects the fetch;
\* lines 334-337 rethrow, and smartFetch does not catch (line 365)
fetchStatic_abort ==
    /\ UNCHANGED <<searchVars, parseVars>>
    /\ UNCHANGED pureVars
    /\ fpc = "fetch_inflight"
    /\ timer = "armed"
    /\ timer' = "fired"
    /\ fresult' = Rejected(Err("This operation was aborted", 0))
    /\ fpc' = "settled"
    /\ UNCHANGED <<fparams, furl, calls, browser, light, lightArticle, heavyArticle, rendered,
                   pwErr, fout>>

\* await fetch(...) rejects for a network error: lines 334-337
fetchStatic_network_error ==
    /\ UNCHANGED <<searchVars, parseVars>>
    /\ UNCHANGED pureVars
    /\ fpc = "fetch_inflight"
    /\ timer' = "cleared"
    /\ fresult' = Rejected(Err("fetch failed", 0))
    /\ fpc' = "settled"
    /\ UNCHANGED <<fparams, furl, calls, browser, light, lightArticle, heavyArticle, rendered,
                   pwErr, fout>>

\* await fetch(...) resolves: lines 327-332
fetchStatic_response ==
    /\ UNCHANGED <<searchVars, parseVars>>
    /\ UNCHANGED pureVars
    /\ fpc = "fetch_inflight"
    /\ \E status \in Statuses, ct \in ContentTypes :
        /\ timer' = "cleared"
        /\ light' = [kind |-> "headers", status |-> status,
                     contentType |-> ct, html |-> 0]
        /\ IF ~Ok(status)
           THEN /\ fresult' = Rejected(Err("HTTP", status))
                /\ fpc' = "settled"
           ELSE /\ fresult' = fresult
                /\ fpc' = "text_inflight"
    /\ UNCHANGED <<fparams, furl, calls, browser, lightArticle, heavyArticle, rendered, pwErr,
                   fout>>

\* await response.text() resolves: lines 332-333
fetchStatic_text ==
    /\ UNCHANGED <<searchVars, parseVars>>
    /\ UNCHANGED pureVars
    /\ fpc = "text_inflight"
    /\ \E n \in BodyLens : light' = [light EXCEPT !.kind = "body", !.html = n]
    /\ fpc' = "light_fetched"
    /\ UNCHANGED <<fparams, furl, calls, timer, browser, lightArticle, heavyArticle, rendered,
                   pwErr, fresult, fout>>

\* await response.text() rejects: lines 334-337
fetchStatic_text_error ==
    /\ UNCHANGED <<searchVars, parseVars>>
    /\ UNCHANGED pureVars
    /\ fpc = "text_inflight"
    /\ fresult' = Rejected(Err("terminated", 0))
    /\ fpc' = "settled"
    /\ UNCHANGED <<fparams, furl, calls, timer, browser, light, lightArticle, heavyArticle,
                   rendered, pwErr, fout>>

(***************************************************************************)
(* smartFetch, light tier, lines 367-384                                   *)
(***************************************************************************)
StaticRaw_MarkerAtLimit(html, url) ==
    [markdown |-> [len    |-> IF html > DEFAULT_MAX_BYTES
                              THEN DEFAULT_MAX_BYTES ELSE html,
                   pad    |-> 0,
                   marker |-> html >= DEFAULT_MAX_BYTES],
     title    |-> url,
     links    |-> <<>>,
     method   |-> "static-raw"]

\* lines 369-374
StaticRaw(html, url) ==
    [markdown |-> [len    |-> IF html > DEFAULT_MAX_BYTES
                              THEN DEFAULT_MAX_BYTES ELSE html,
                   pad    |-> 0,
                   marker |-> html > DEFAULT_MAX_BYTES],
     title    |-> url,
     links    |-> <<>>,
     method   |-> "static-raw"]

\* { ...result, method }
WithMethod(a, method) ==
    [markdown |-> [len |-> a.len, pad |-> a.pad, marker |-> FALSE],
     title    |-> a.title,
     links    |-> a.links,
     method   |-> method]

LightSufficient_NoFloor(a) == a.kind = "article"

\* line 378
LightSufficient(a) == a.kind = "article" /\ TrimmedLength(a) > ArticleFloor

smartFetch_light ==
    /\ UNCHANGED <<searchVars, parseVars>>
    /\ UNCHANGED pureVars
    /\ fpc = "light_fetched"
    /\ IF ~Includes(light.contentType, "html")
       THEN /\ fresult' = Fulfilled(StaticRaw(light.html, furl))
            /\ fpc' = "settled"
            /\ UNCHANGED <<calls, lightArticle>>
       ELSE /\ calls' = Append(calls, "htmlToMarkdown")
            /\ \E a \in htmlToMarkdown :
                /\ lightArticle' = a
                /\ IF LightSufficient(a)
                   THEN /\ fresult' = Fulfilled(WithMethod(a, "static+readability"))
                        /\ fpc' = "settled"
                   ELSE /\ fresult' = fresult
                        /\ fpc' = "fetchWithPlaywright"
    /\ UNCHANGED <<fparams, furl, timer, browser, light, heavyArticle,
                   rendered, pwErr, fout>>

(***************************************************************************)
(* fetchWithPlaywright, lines 343-354                                      *)
(***************************************************************************)
\* line 344: await import("playwright"), outside the try block of line 346
fetchWithPlaywright_import ==
    /\ UNCHANGED <<searchVars, parseVars>>
    /\ UNCHANGED pureVars
    /\ fpc = "fetchWithPlaywright"
    /\ calls' = Append(calls, "fetchWithPlaywright")
    /\ \/ /\ fpc' = "pw_launch"
          /\ pwErr' = pwErr
       \/ /\ pwErr' = Err("Cannot find package 'playwright'", 0)
          /\ fpc' = "smartFetch_catch"
    /\ UNCHANGED <<fparams, furl, timer, browser, light, lightArticle, heavyArticle, rendered,
                   fresult, fout>>

\* line 345: await chromium.launch(), still outside the try block
fetchWithPlaywright_launch ==
    /\ UNCHANGED <<searchVars, parseVars>>
    /\ UNCHANGED pureVars
    /\ fpc = "pw_launch"
    /\ \/ /\ browser' = "open"
          /\ calls' = Append(calls, "launch")
          /\ fpc' = "pw_newPage"
          /\ pwErr' = pwErr
       \/ /\ pwErr' = Err("browserType.launch: Executable doesn't exist", 0)
          /\ fpc' = "smartFetch_catch"
          /\ UNCHANGED <<browser, calls>>
    /\ UNCHANGED <<fparams, furl, timer, light, lightArticle, heavyArticle, rendered, fresult,
                   fout>>

\* line 347: await browser.newPage()
fetchWithPlaywright_newPage ==
    /\ UNCHANGED <<searchVars, parseVars>>
    /\ UNCHANGED pureVars
    /\ fpc = "pw_newPage"
    /\ \/ /\ fpc' = "pw_goto"
          /\ pwErr' = pwErr
       \/ /\ pwErr' = Err("browser.newPage: Target closed", 0)
          /\ fpc' = "pw_finally"
    /\ UNCHANGED <<fparams, furl, calls, timer, browser, light, lightArticle, heavyArticle,
                   rendered, fresult, fout>>

\* line 348: await page.goto(url, {waitUntil: "networkidle", timeout})
fetchWithPlaywright_goto ==
    /\ UNCHANGED <<searchVars, parseVars>>
    /\ UNCHANGED pureVars
    /\ fpc = "pw_goto"
    /\ \/ /\ fpc' = "pw_content"
          /\ pwErr' = pwErr
       \/ /\ \E m \in {"page.goto: net::ERR_NAME_NOT_RESOLVED",
                       "page.goto: Timeout 30000ms exceeded"} :
                pwErr' = Err(m, 0)
          /\ fpc' = "pw_finally"
    /\ UNCHANGED <<fparams, furl, calls, timer, browser, light, lightArticle, heavyArticle,
                   rendered, fresult, fout>>

\* lines 349-350: await page.content(); return html
fetchWithPlaywright_content ==
    /\ UNCHANGED <<searchVars, parseVars>>
    /\ UNCHANGED pureVars
    /\ fpc = "pw_content"
    /\ \/ /\ \E d \in RenderedDocs :
                rendered' = [kind |-> "html", len |-> d.len, text |-> d.text]
          /\ pwErr' = pwErr
       \/ /\ pwErr' = Err("page.content: Target closed", 0)
          /\ rendered' = rendered
    /\ fpc' = "pw_finally"
    /\ UNCHANGED <<fparams, furl, calls, timer, browser, light, lightArticle, heavyArticle,
                   fresult, fout>>

CloseBrowser_OnSuccessOnly(b, err) == IF err.kind = "none" THEN "closed" ELSE b

\* The browser state the finally block of lines 351-353 leaves.
CloseBrowser(b, err) == "closed"

\* lines 351-353: finally { await browser.close() }, then the try block's
\* return value or exception is delivered to smartFetch
fetchWithPlaywright_finally ==
    /\ UNCHANGED <<searchVars, parseVars>>
    /\ UNCHANGED pureVars
    /\ fpc = "pw_finally"
    /\ browser' = CloseBrowser(browser, pwErr)
    /\ calls' = Append(calls, "close")
    /\ fpc' = IF pwErr.kind = "none" THEN "heavy_fetched" ELSE "smartFetch_catch"
    /\ UNCHANGED <<fparams, furl, timer, light, lightArticle, heavyArticle, rendered, pwErr,
                   fresult, fout>>

(***************************************************************************)
(* smartFetch, heavy tier, lines 386-405                                   *)
(***************************************************************************)
\* lines 395-401
PlaywrightRaw(html, url) ==
    [markdown |-> [len |-> html.text, pad |-> 0, marker |-> FALSE],
     title    |-> url,
     links    |-> <<>>,
     method   |-> "playwright-raw"]

HeavySufficient_Floor(a) == a.kind = "article" /\ a.len - a.pad > ArticleFloor

\* line 390: if (result)
HeavySufficient(a) == a.kind = "article"

\* lines 389-401
smartFetch_heavy ==
    /\ UNCHANGED <<searchVars, parseVars>>
    /\ UNCHANGED pureVars
    /\ fpc = "heavy_fetched"
    /\ calls' = Append(calls, "htmlToMarkdown")
    /\ \E a \in htmlToMarkdown :
        /\ heavyArticle' = a
        /\ fresult' = IF HeavySufficient(a)
                      THEN Fulfilled(WithMethod(a, "playwright+readability"))
                      ELSE Fulfilled(PlaywrightRaw(rendered, furl))
    /\ fpc' = "settled"
    /\ UNCHANGED <<fparams, furl, timer, browser, light, lightArticle,
                   rendered, pwErr, fout>>

\* lines 402-404
smartFetch_catch ==
    /\ UNCHANGED <<searchVars, parseVars>>
    /\ UNCHANGED pureVars
    /\ fpc = "smartFetch_catch"
    /\ fresult' = Rejected(PlaywrightFetchFailed(pwErr))
    /\ fpc' = "settled"
    /\ UNCHANGED <<fparams, furl, calls, timer, browser, light, lightArticle, heavyArticle,
                   rendered, pwErr, fout>>

(***************************************************************************)
(* web_fetch.execute, after smartFetch settles: lines 497-531              *)
(***************************************************************************)
\* lines 498-528; truncateHead is supplied by the host (line 33) and may be
\* missing there, in which case the call of line 498 throws into line 529
web_fetch_format ==
    /\ UNCHANGED <<searchVars, parseVars>>
    /\ UNCHANGED pureVars
    /\ fpc = "settled"
    /\ fresult.kind = "fulfilled"
    /\ \/ fout' = ToolPage(fresult.value)
       \/ fout' = ToolError("Fetch failed", Err("truncateHead is not a function", 0))
    /\ fpc' = "returned"
    /\ UNCHANGED <<fparams, furl, calls, timer, browser, light, lightArticle, heavyArticle,
                   rendered, pwErr, fresult>>

\* lines 529-531
web_fetch_catch ==
    /\ UNCHANGED <<searchVars, parseVars>>
    /\ UNCHANGED pureVars
    /\ fpc = "settled"
    /\ fresult.kind = "rejected"
    /\ fout' = ToolError("Fetch failed", fresult.error)
    /\ fpc' = "returned"
    /\ UNCHANGED <<fparams, furl, calls, timer, browser, light, lightArticle, heavyArticle,
                   rendered, pwErr, fresult>>

NextFetch ==
    \/ web_fetch_execute
    \/ smartFetch_enter
    \/ fetchStatic_start
    \/ fetchStatic_abort
    \/ fetchStatic_network_error
    \/ fetchStatic_response
    \/ fetchStatic_text
    \/ fetchStatic_text_error
    \/ smartFetch_light
    \/ fetchWithPlaywright_import
    \/ fetchWithPlaywright_launch
    \/ fetchWithPlaywright_newPage
    \/ fetchWithPlaywright_goto
    \/ fetchWithPlaywright_content
    \/ fetchWithPlaywright_finally
    \/ smartFetch_heavy
    \/ smartFetch_catch
    \/ web_fetch_format
    \/ web_fetch_catch

IdleFetch ==
    /\ fpc = "idle"
    /\ fparams = Unset
    /\ furl = <<>>
    /\ calls = <<>>
    /\ timer = "unset"
    /\ browser = "none"
    /\ light = Unset
    /\ lightArticle = Unset
    /\ heavyArticle = Unset
    /\ rendered = Unset
    /\ pwErr = None
    /\ fresult = Unset
    /\ fout = Unset

IdlePure ==
    /\ tpc = "idle"
    /\ arg = Unset
    /\ ret = Unset

IdleSearch ==
    /\ spc = "idle"
    /\ sparams = Unset
    /\ env = Unset
    /\ auth = Unset
    /\ request = Unset
    /\ stimer = "unset"
    /\ sout = Unset

IdleParse ==
    /\ body = <<>>
    /\ ppc = "idle"
    /\ lineNo = 0
    /\ parsed = Unset

Init == InitFetch /\ IdleSearch /\ IdleParse /\ IdlePure

Next == NextFetch

Spec == Init /\ [][Next]_vars

(***************************************************************************)
(* Properties of smartFetch                                                *)
(***************************************************************************)
SmartFetchSettled == fpc \in {"settled", "returned"}

RECURSIVE Select(_, _)
Select(s, S) ==
    IF s = <<>> THEN <<>>
    ELSE IF Head(s) \in S THEN <<Head(s)>> \o Select(Tail(s), S)
         ELSE Select(Tail(s), S)

\* the tier entry points invoked by the call, in invocation order
TierCalls == Select(calls, {"fetchStatic", "fetchWithPlaywright"})

Count(name) == Len(Select(calls, {name}))

IndicatesHtml(ct) == \E i \in 1..Len(ct) : ct[i] = "html"

LightHtmlFetched ==
    /\ light.kind = "body"
    /\ light.status \in 200..299
    /\ IndicatesHtml(light.contentType)

LightArticleBelowFloor ==
    \/ lightArticle.kind = "none"
    \/ lightArticle.kind = "article" /\ lightArticle.len - lightArticle.pad < 200

\* C1: a call with forceHeavyRender = false whose light fetch returns a
\* successful HTML response from which no article, or an article of fewer
\* than 200 trimmed characters, is extracted has invoked fetchStatic exactly
\* once and then fetchWithPlaywright exactly once, in that order, by the
\* time it settles.
C1_LightThenHeavyOnce ==
    (SmartFetchSettled /\ fparams.playwright # "true" /\ LightHtmlFetched
        /\ LightArticleBelowFloor)
    => TierCalls = <<"fetchStatic", "fetchWithPlaywright">>

C1_Witness ==
    /\ fpc = "returned"
    /\ fparams.playwright = "false"
    /\ LightHtmlFetched
    /\ lightArticle.kind = "article"
    /\ lightArticle.len - lightArticle.pad < 200
    /\ TierCalls = <<"fetchStatic", "fetchWithPlaywright">>
    /\ fresult.kind = "fulfilled"

\* C2: once the light fetch has ended with a non-2xx response the call has
\* failed with the error of that status: the Article Extractor has not run,
\* no browser was launched and fetchStatic was invoked once.
C2_Non2xxFailsImmediately ==
    (light.kind # "unset" /\ light.status \notin 200..299)
    => /\ SmartFetchSettled
       /\ fresult = Rejected(Err("HTTP", light.status))
       /\ calls = <<"fetchStatic">>
       /\ lightArticle.kind = "unset"
       /\ heavyArticle.kind = "unset"
       /\ browser = "none"
       /\ fpc = "returned" => (fout.isError /\ fout.cause = Err("HTTP", light.status))

C2_Witness ==
    /\ fpc = "returned"
    /\ light.kind = "headers"
    /\ light.status = 404
    /\ fout.isError
    /\ calls = <<"fetchStatic">>

\* C3: a call whose light fetch succeeded with a content type that does not
\* indicate HTML settles with method static-raw, an empty link list and the
\* body cut to at most DEFAULT_MAX_BYTES, the truncation marker being
\* present exactly when something was cut; neither the Article Extractor nor
\* the heavy tier was entered.
C3_NonHtmlIsStaticRaw ==
    (SmartFetchSettled /\ light.kind = "body"
        /\ ~IndicatesHtml(light.contentType))
    => /\ fresult.kind = "fulfilled"
       /\ fresult.value.method = "static-raw"
       /\ fresult.value.links = <<>>
       /\ fresult.value.markdown.len <= 50000
       /\ fresult.value.markdown.len =
              (IF light.html <= 50000 THEN light.html ELSE 50000)
       /\ fresult.value.markdown.marker <=> (fresult.value.markdown.len < light.html)
       /\ calls = <<"fetchStatic">>
       /\ browser = "none"
       /\ lightArticle.kind = "unset"

C3_Witness ==
    /\ fpc = "returned"
    /\ light.kind = "body"
    /\ light.contentType = <<"application", "/", "json">>
    /\ light.html = 50001
    /\ fresult.kind = "fulfilled"
    /\ fresult.value.method = "static-raw"
    /\ fresult.value.markdown.marker

LightArticleAboveFloor ==
    /\ lightArticle.kind = "article"
    /\ lightArticle.len - lightArticle.pad > 200

IsMethod(m) == fresult.kind = "fulfilled" /\ fresult.value.method = m

\* C4: once the Article Extractor has run on the light tier's HTML, the call
\* has returned method static+readability without entering the heavy tier
\* if the extractor produced markdown of trimmed length above 200, and has
\* otherwise escalated to the heavy tier; every static+readability result
\* has markdown of trimmed length above 200.
C4_StaticReadabilityIffAboveFloor ==
    /\ (lightArticle.kind # "unset" /\ LightArticleAboveFloor)
       => /\ IsMethod("static+readability")
          /\ Count("fetchWithPlaywright") = 0
          /\ browser = "none"
    /\ (lightArticle.kind # "unset" /\ ~LightArticleAboveFloor)
       => /\ ~IsMethod("static+readability")
          /\ fpc = "fetchWithPlaywright" \/ Count("fetchWithPlaywright") = 1
    /\ IsMethod("static+readability")
       => fresult.value.markdown.len - fresult.value.markdown.pad > 200

C4_Witness ==
    /\ fpc = "returned"
    /\ lightArticle.kind = "article"
    /\ lightArticle.len = 206
    /\ lightArticle.pad = 5
    /\ IsMethod("static+readability")

C6_HeavyFailureIsWrapped ==
    (SmartFetchSettled /\ pwErr.kind # "none")
    => /\ fresult.kind = "rejected"
       /\ fresult.error.msg = "Playwright fetch failed"
       /\ fresult.error.wraps = pwErr.msg
       /\ fresult.error.hint = "Try with a different URL."
       /\ fpc = "returned" => (fout.isError /\ fout.method = "")

C6_Witness ==
    /\ fpc = "returned"
    /\ pwErr.kind # "none"
    /\ pwErr.msg = "page.goto: Timeout 30000ms exceeded"
    /\ lightArticle.kind = "article"
    /\ fresult.kind = "rejected"
    /\ fout.isError

\* C7: a browser launched by fetchWithPlaywright is closed before the
\* heavy render hands its outcome to smartFetch, on every exit path, so no
\* call settles with its browser open.
C7_BrowserClosed ==
    fpc \in {"heavy_fetched", "smartFetch_catch", "settled", "returned"}
    => browser # "open"

C7_Witness ==
    /\ fpc = "returned"
    /\ browser = "closed"
    /\ pwErr.kind # "none"
    /\ Count("launch") = 1
    /\ Count("close") = 1

(***************************************************************************)
(* Search responses                                                        *)
(***************************************************************************)
\* A JSON object as JSON.parse returns it. `type`, `response` and `output`
\* are the properties the code reads; an absent property is None.
Obj(type, response, output) ==
    [kind |-> "object", type |-> type, response |-> response, output |-> output]

Array(items) == [kind |-> "array", items |-> items]

\* urls are sequences of tokens; the tracking parameter is one token
UrlA == <<"https://a.test">>
UrlATracked == <<"https://a.test", "?utm_source=openai">>
UrlATrackedTwice ==
    <<"https://a.test", "?utm_source=openai", "?utm_source=openai">>
UrlB == <<"https://b.test">>

Citation(url, title) == [type |-> "url_citation", url |-> url, title |-> title]

\* the response of the test at src/unnamed/part_000 lines 40-77
RespCited ==
    Obj("response", None,
        Array(<< [kind |-> "item", type |-> "message",
                  annotations |-> << Citation(UrlATracked, <<"Source A">>),
                                     Citation(UrlATracked, <<"Source A duplicate">>) >>,
                  sources |-> <<>>],
                 [kind |-> "item", type |-> "web_search_call",
                  annotations |-> <<>>,
                  sources |-> <<UrlATracked, UrlB>>] >>))

RespEmpty == Obj("response", None, Array(<<>>))

\* output: [null]
RespNullItem == Obj("response", None, Array(<< [kind |-> "null"] >>))

\* ann.url.replace(/\?utm_source=openai$/, "")
NormalizeUrl(url) ==
    IF url # <<>> /\ url[Len(url)] = "?utm_source=openai"
    THEN SubSeq(url, 1, Len(url) - 1)
    ELSE url

SeenUrls(results) == {results[i].url : i \in 1..Len(results)}

\* lines 236-243, folded over the annotations of a message item
RECURSIVE CiteAnnotations(_, _)
CiteAnnotations(anns, results) ==
    IF anns = <<>> THEN results
    ELSE LET ann == Head(anns)
             url == NormalizeUrl(ann.url)
         IN  IF ann.type # "url_citation" \/ ann.url = <<>>
                \/ url \in SeenUrls(results)
             THEN CiteAnnotations(Tail(anns), results)
             ELSE CiteAnnotations(Tail(anns),
                      Append(results, [title |-> ann.title, url |-> url]))

\* lines 233-245
RECURSIVE CitePass(_, _)
CitePass(items, results) ==
    IF items = <<>> THEN results
    ELSE IF Head(items).type # "message" THEN CitePass(Tail(items), results)
    ELSE CitePass(Tail(items), CiteAnnotations(Head(items).annotations, results))

RECURSIVE BackfillSources_NoSeenCheck(_, _)
BackfillSources_NoSeenCheck(sources, results) ==
    IF sources = <<>> THEN results
    ELSE LET url == NormalizeUrl(Head(sources))
         IN  IF Head(sources) = <<>>
             THEN BackfillSources_NoSeenCheck(Tail(sources), results)
             ELSE BackfillSources_NoSeenCheck(Tail(sources),
                      Append(results, [title |-> url, url |-> url]))

\* lines 250-256, folded over the sources of a web_search_call item
RECURSIVE BackfillSources(_, _)
BackfillSources(sources, results) ==
    IF sources = <<>> THEN results
    ELSE LET url == NormalizeUrl(Head(sources))
         IN  IF Head(sources) = <<>> \/ url \in SeenUrls(results)
             THEN BackfillSources(Tail(sources), results)
             ELSE BackfillSources(Tail(sources),
                      Append(results, [title |-> url, url |-> url]))

\* lines 248-257
RECURSIVE BackfillPass(_, _)
BackfillPass(items, results) ==
    IF items = <<>> THEN results
    ELSE IF Head(items).type # "web_search_call"
         THEN BackfillPass(Tail(items), results)
    ELSE BackfillPass(Tail(items), BackfillSources(Head(items).sources, results))

\* item.type on a null item throws a TypeError (line 234)
ExtractThrows(responseObj) ==
    /\ responseObj.kind = "object"
    /\ responseObj.output.kind = "array"
    /\ \E i \in 1..Len(responseObj.output.items) :
           responseObj.output.items[i].kind = "null"

\* extractSearchResults, lines 225-260, without the snippet of each result
extractSearchResults(responseObj) ==
    IF responseObj.kind # "object" THEN <<>>
    ELSE IF responseObj.output.kind # "array" THEN <<>>
    ELSE BackfillPass(responseObj.output.items,
                      CitePass(responseObj.output.items, <<>>))

(***************************************************************************)
(* extractSearchResults called on its own                                  *)
(***************************************************************************)
\* annotations of a message item: citations with and without the tracking
\* parameter, one without url, and one of another type
Annotations ==
    { Citation(UrlATracked, <<"Source A">>),
      Citation(UrlATracked, <<"Source A duplicate">>),
      Citation(UrlA, <<"Source A plain">>),
      Citation(UrlB, <<"Source B">>),
      Citation(<<>>, <<"no url">>),
      [type |-> "file_citation", url |-> UrlB, title |-> <<"file">>] }

\* sources of a web_search_call item: { url } objects, one with an empty url
Sources == { UrlA, UrlATracked, UrlATrackedTwice, UrlB, <<>> }

OutputItems ==
    { [kind |-> "item", type |-> "message", annotations |-> a, sources |-> <<>>] :
        a \in SeqsUpTo(Annotations, MaxRefs) }
    \cup
    { [kind |-> "item", type |-> "web_search_call", annotations |-> <<>>,
       sources |-> c] : c \in SeqsUpTo(Sources, MaxRefs) }
    \cup
    { [kind |-> "item", type |-> "reasoning", annotations |-> <<>>,
       sources |-> <<>>],
      [kind |-> "null"] }

Responses ==
    { Obj("response", None, Array(items)) : items \in SeqsUpTo(OutputItems, MaxItems) }
    \cup { Obj("response", None, None), [kind |-> "null"] }

InitExtract ==
    /\ IdleFetch
    /\ IdleSearch
    /\ IdleParse
    /\ tpc = "ready"
    /\ arg \in Responses
    /\ ret = Unset

\* extractSearchResults(responseObj), lines 225-260
extractSearchResults_call ==
    /\ UNCHANGED <<fetchVars, searchVars, parseVars>>
    /\ tpc = "ready"
    /\ tpc' = "done"
    /\ ret' = IF ExtractThrows(arg)
              THEN Thrown(Err("TypeError", 0))
              ELSE Fulfilled(extractSearchResults(arg))
    /\ UNCHANGED arg

NextExtract == extractSearchResults_call

SpecExtract == InitExtract /\ [][NextExtract]_vars

(***************************************************************************)
(* extractSnippetAround, lines 262-270                                     *)
(***************************************************************************)
\* A text is a sequence of runs: n copies of the character c. Single
\* characters are runs of one; a long run stands for filler text.
Ch(c) == [c |-> c, n |-> 1]
Run(c, n) == [c |-> c, n |-> n]
Text(chars) == [i \in 1..Len(chars) |-> Ch(chars[i])]

\* text.length
RECURSIVE Length(_)
Length(t) == IF t = <<>> THEN 0 ELSE Head(t).n + Length(Tail(t))

\* text.slice(0, k)
RECURSIVE Take(_, _)
Take(t, k) ==
    IF t = <<>> \/ k <= 0 THEN <<>>
    ELSE IF Head(t).n <= k THEN <<Head(t)>> \o Take(Tail(t), k - Head(t).n)
    ELSE <<Run(Head(t).c, k)>>

\* text.slice(k)
RECURSIVE Drop(_, _)
Drop(t, k) ==
    IF t = <<>> \/ k <= 0 THEN t
    ELSE IF Head(t).n <= k THEN Drop(Tail(t), k - Head(t).n)
    ELSE <<Run(Head(t).c, Head(t).n - k)>> \o Tail(t)

\* text.slice(from, to)
Slice(t, from, to) == Take(Drop(t, from), to - from)

RECURSIVE TrimTextStart(_)
TrimTextStart(t) ==
    IF t = <<>> THEN <<>>
    ELSE IF IsSpace(Head(t).c) THEN TrimTextStart(Tail(t)) ELSE t

RECURSIVE TrimTextEnd(_)
TrimTextEnd(t) ==
    IF t = <<>> THEN <<>>
    ELSE IF IsSpace(t[Len(t)].c) THEN TrimTextEnd(SubSeq(t, 1, Len(t) - 1)) ELSE t

\* text.trim()
TrimText(t) == TrimTextEnd(TrimTextStart(t))

\* the least index from `from` on whose character is c, 0 if there is none
IndexOf(t, c, from) ==
    IF \E i \in from..Len(t) : t[i].c = c
    THEN CHOOSE i \in from..Len(t) :
             t[i].c = c /\ \A j \in from..(i - 1) : t[j].c # c
    ELSE 0

\* /\[([^\]]*)\]\([^)]*\)/ matches at the head of t: where the match ends
\* and where its group ends, <<0, 0>> if it does not match
MatchLink(t) ==
    LET close == IndexOf(t, "]", 2)
        paren == IF close > 0 /\ close < Len(t) /\ t[close + 1].c = "("
                 THEN IndexOf(t, ")", close + 2) ELSE 0
    IN  IF t # <<>> /\ Head(t).c = "[" /\ paren > 0
        THEN <<paren, close - 1>> ELSE <<0, 0>>

RECURSIVE StripLinks_BracketsOnly(_)
StripLinks_BracketsOnly(t) ==
    IF t = <<>> THEN <<>>
    ELSE LET close == IndexOf(t, "]", 2)
         IN  IF Head(t).c = "[" /\ close > 0
             THEN SubSeq(t, 2, close - 1)
                  \o StripLinks_BracketsOnly(SubSeq(t, close + 1, Len(t)))
             ELSE <<Head(t)>> \o StripLinks_BracketsOnly(Tail(t))

\* snippet.replace(/\[([^\]]*)\]\([^)]*\)/g, "$1")
RECURSIVE StripLinks(_)
StripLinks(t) ==
    IF t = <<>> THEN <<>>
    ELSE LET m == MatchLink(t)
         IN  IF m[1] > 0
             THEN SubSeq(t, 2, m[2]) \o StripLinks(SubSeq(t, m[1] + 1, Len(t)))
             ELSE <<Head(t)>> \o StripLinks(Tail(t))

Ellipsis == Text(<<".", ".", ".">>)

\* a number or null
Num(n) == [kind |-> "number", n |-> n]

Max(a, b) == IF a >= b THEN a ELSE b
Min(a, b) == IF a <= b THEN a ELSE b

extractSnippetAround(text, start, end) ==
    IF start.kind # "number" \/ end.kind # "number" \/ text = <<>> THEN <<>>
    ELSE LET before   == Max(0, start.n - SnippetRadius)
             after    == Min(Length(text), end.n + SnippetRadius)
             window   == TrimText(Slice(text, before, after))
             stripped == TrimText(StripLinks(window))
         IN  IF Length(stripped) > SnippetMax
             THEN Take(stripped, SnippetMax - 3) \o Ellipsis
             ELSE stripped

\* texts that contain an inline link [label](target): what precedes the link,
\* its label, its target and what follows it
LongRun == Run("x", SnippetMax)
PadChars == {Ch(" "), Ch("a"), Ch("["), Ch(")"), LongRun}
LabelChars == {Ch(" "), Ch("a")}
TargetChars == {Ch("a"), Ch("u")}

LinkedTexts ==
    [pre    : SeqsUpTo(PadChars, MaxPad),
     label  : SeqsUpTo(LabelChars, MaxLink),
     target : SeqsUpTo(TargetChars, MaxLink) \ {<<>>},
     post   : SeqsUpTo(PadChars, MaxPad)]

LinkText(l) ==
    l.pre \o Text(<<"[">>) \o l.label \o Text(<<"]", "(">>) \o l.target
          \o Text(<<")">>) \o l.post

InitSnippet ==
    /\ IdleFetch
    /\ IdleSearch
    /\ IdleParse
    /\ tpc = "ready"
    /\ arg \in LinkedTexts
    /\ ret = Unset

\* extractSnippetAround(text, 0, text.length)
extractSnippetAround_call ==
    /\ UNCHANGED <<fetchVars, searchVars, parseVars>>
    /\ tpc = "ready"
    /\ tpc' = "done"
    /\ ret' = Returned("extractSnippetAround",
                  extractSnippetAround(LinkText(arg), Num(0),
                                       Num(Length(LinkText(arg)))))
    /\ UNCHANGED arg

NextSnippet == extractSnippetAround_call

SpecSnippet == InitSnippet /\ [][NextSnippet]_vars

(***************************************************************************)
(* The link list of htmlToMarkdown, lines 296-307                          *)
(***************************************************************************)
\* An absolute url: its scheme as characters, and what follows the colon.
Url(scheme, rest) == [kind |-> "url", scheme |-> scheme, rest |-> rest]

\* url.href as characters and tokens
HrefOf(u) == u.scheme \o <<":">> \o u.rest

\* String.prototype.startsWith
StartsWith(s, prefix) ==
    Len(s) >= Len(prefix) /\ SubSeq(s, 1, Len(prefix)) = prefix

\* the URL parser lower-cases the scheme
LowerChar(c) ==
    IF c = "H" THEN "h" ELSE IF c = "T" THEN "t" ELSE IF c = "P" THEN "p" ELSE c
Lower(chars) == [i \in 1..Len(chars) |-> LowerChar(chars[i])]

\* what href="..." holds: a path, an absolute url, or text no base resolves
RelativeHref(path) == [kind |-> "relative", path |-> path]
AbsoluteHref(scheme, rest) == [kind |-> "absolute", scheme |-> scheme, rest |-> rest]
InvalidHref == [kind |-> "invalid"]

Hrefs ==
    { RelativeHref("/a"), RelativeHref("/b"),
      AbsoluteHref(<<"h", "t", "t", "p">>, <<"//", "a.test", "/a">>),
      AbsoluteHref(<<"H", "T", "T", "P">>, <<"//", "a.test", "/a">>),
      AbsoluteHref(<<"h", "t", "t", "p", "s">>, <<"//", "b.test", "/">>),
      AbsoluteHref(<<"h", "t", "t", "p", "x">>, <<"//", "c.test", "/">>),
      AbsoluteHref(<<"m", "a", "i", "l", "t", "o">>, <<"me@a.test">>),
      InvalidHref }

\* the base: the final url of the light fetch or the url given to the browser
BaseUrls ==
    { Url(<<"h", "t", "t", "p">>, <<"//", "a.test", "/">>),
      Url(<<"h", "t", "t", "p", "s">>, <<"//", "a.test", "/">>),
      Url(<<"f", "i", "l", "e">>, <<"//", "", "/page.html">>),
      Url(<<"d", "a", "t", "a">>, <<"text/html,">>) }

\* new URL(href, base): a url, or None where the constructor throws
Resolve(href, base) ==
    IF href.kind = "invalid" THEN None
    ELSE IF href.kind = "absolute" THEN Url(Lower(href.scheme), href.rest)
    ELSE IF Len(base.rest) = 3
         THEN Url(base.scheme, <<base.rest[1], base.rest[2], href.path>>)
         ELSE None

\* lines 298-305: the loop over the matches of href="..."
RECURSIVE CollectLinks(_, _, _)
CollectLinks(hrefs, base, links) ==
    IF hrefs = <<>> THEN links
    ELSE LET resolved == Resolve(Head(hrefs), base)
         IN  IF resolved.kind = "url"
                /\ StartsWith(HrefOf(resolved), <<"h", "t", "t", "p">>)
             THEN CollectLinks(Tail(hrefs), base, Append(links, resolved))
             ELSE CollectLinks(Tail(hrefs), base, links)

\* [...new Set(links)]
RECURSIVE SetOrder(_, _)
SetOrder(links, seen) ==
    IF links = <<>> THEN <<>>
    ELSE IF Head(links) \in seen THEN SetOrder(Tail(links), seen)
    ELSE <<Head(links)>> \o SetOrder(Tail(links), seen \cup {Head(links)})

ArticleLinks(hrefs, base) == SetOrder(CollectLinks(hrefs, base, <<>>), {})

InitLinks ==
    /\ IdleFetch
    /\ IdleSearch
    /\ IdleParse
    /\ tpc = "ready"
    /\ arg \in [hrefs : SeqsUpTo(Hrefs, MaxHrefs), base : BaseUrls]
    /\ ret = Unset

\* htmlToMarkdown(html, url) on an article whose content holds the hrefs
htmlToMarkdown_links ==
    /\ UNCHANGED <<fetchVars, searchVars, parseVars>>
    /\ tpc = "ready"
    /\ tpc' = "done"
    /\ ret' = Returned("htmlToMarkdown", ArticleLinks(arg.hrefs, arg.base))
    /\ UNCHANGED arg

NextLinks == htmlToMarkdown_links

SpecLinks == InitLinks /\ [][NextLinks]_vars

(***************************************************************************)
(* The web policy hooks: tool_call interception                            *)
(***************************************************************************)
\* The environment of the policy: PI_SEARCH_ENFORCE_WEB_POLICY,
\* PI_SEARCH_BLOCK_BASH_WEB ("" stands for unset) and the two CSV lists,
\* PI_SEARCH_EXTRA_BLOCKED_TOOLS and PI_SEARCH_ALLOWED_WEB_TOOLS, parsed.
Toggles == {"", "true", "false"}

PolicyEnvs ==
    [enforce   : Toggles,
     blockBash : Toggles,
     extra     : SUBSET {"web_search", "web_fetch", "custom_tool"},
     allowed   : SUBSET {"mcp_fetch", "web_search"}]

\* isEnvEnabled(name, true): on unless the variable says false
isEnvEnabled(value) == value # "false"

\* the third-party web tools blocked by default
DEFAULT_BLOCKED_TOOLS == {"mcp_fetch", "brave_search"}

ALWAYS_ALLOWED_TOOLS == {"web_search", "web_fetch"}

getBlockedWebTools_NoAlwaysAllowed(e) ==
    (DEFAULT_BLOCKED_TOOLS \cup e.extra) \ e.allowed

\* the defaults and the extra names, less the allowed names, less the two
\* tools of the extension
getBlockedWebTools(e) ==
    ((DEFAULT_BLOCKED_TOOLS \cup e.extra) \ e.allowed) \ ALWAYS_ALLOWED_TOOLS

\* a shell command as its tokens
CommandTokens ==
    {"curl", "wget", "links", "https://example.com", "git", "echo",
     "workflow-links.test.ts"}

HTTP_CLIENTS == {"curl", "wget", "links"}
UrlTokens == {"https://example.com"}

\* the command names an HTTP client program or holds a url with a scheme; a
\* file name that merely contains a client's name is neither
IsWebCommand(command) ==
    \E i \in 1..Len(command) : command[i] \in HTTP_CLIENTS \cup UrlTokens

\* the events of tool_call: { toolName, input }
ToolEvents ==
    { [toolName |-> n, command |-> <<>>] :
        n \in {"web_search", "web_fetch", "mcp_fetch", "brave_search",
               "custom_tool", "read"} }
    \cup
    { [toolName |-> "bash", command |-> c] :
        c \in SeqsUpTo(CommandTokens, MaxCommandLen) }

Block(reason) == [kind |-> "block", reason |-> reason]

\* the handler of tool_call; None is `undefined`, no block
PolicyDecision(e, event) ==
    IF event.toolName \in getBlockedWebTools(e)
    THEN Block("use web_search / web_fetch only for web access")
    ELSE IF event.toolName = "bash" /\ isEnvEnabled(e.blockBash)
            /\ IsWebCommand(event.command)
    THEN Block("web access via bash is disabled")
    ELSE None

InitPolicy ==
    /\ IdleFetch
    /\ IdleSearch
    /\ IdleParse
    /\ tpc = "ready"
    /\ arg \in [env : PolicyEnvs, event : ToolEvents]
    /\ ret = Unset

\* webBrowseExtension(pi): the hooks are registered when the policy is on
webBrowseExtension_hooks ==
    /\ UNCHANGED <<fetchVars, searchVars, parseVars>>
    /\ tpc = "ready"
    /\ tpc' = "registered"
    /\ ret' = [kind |-> "handlers", tool_call |-> isEnvEnabled(arg.env.enforce)]
    /\ UNCHANGED arg

\* the host calls the tool_call handler with the event
tool_call ==
    /\ UNCHANGED <<fetchVars, searchVars, parseVars>>
    /\ tpc = "registered"
    /\ ret.tool_call
    /\ tpc' = "done"
    /\ ret' = Returned("tool_call", PolicyDecision(arg.env, arg.event))
    /\ UNCHANGED arg

NextPolicy ==
    \/ webBrowseExtension_hooks
    \/ tool_call

SpecPolicy == InitPolicy /\ [][NextPolicy]_vars

(***************************************************************************)
(* Response bodies: text.split("\n")                                       *)
(***************************************************************************)
\* A line is the text before its payload and the payload, line.slice(6).trim()
\* for a line that starts with "data: ". Payloads: nothing, the sentinel,
\* text that is not JSON, or a JSON value.
Line(pre, data) == [pre |-> pre, data |-> data]

Blank    == [kind |-> "blank"]
Sentinel == [kind |-> "[DONE]"]
BadJson  == [kind |-> "badjson"]
JsonNull == [kind |-> "null"]

Event(type, response) == Obj(type, response, None)

DataLines ==
    { Line("data: ", d) :
        d \in { Blank, Sentinel, BadJson, JsonNull,
                Event("response.in_progress", None),
                Event("response.done", RespCited),
                Event("response.done", RespEmpty),
                Event("response.completed", RespEmpty),
                Event("response.completed", None) } }

OtherLines ==
    { Line("", Blank),
      Line("", Sentinel),
      Line("", RespNullItem),
      Line("data:", Event("response.done", RespCited)) }

Lines == DataLines \cup OtherLines

Bodies(n) == SeqsUpTo(Lines, n)

\* the lines text.trim() leaves: leading and trailing empty lines removed
RECURSIVE DropEmptyHead(_)
DropEmptyHead(b) ==
    IF b = <<>> THEN <<>>
    ELSE IF Head(b) = Line("", Blank) THEN DropEmptyHead(Tail(b)) ELSE b

RECURSIVE DropEmptyTail(_)
DropEmptyTail(b) ==
    IF b = <<>> THEN <<>>
    ELSE IF b[Len(b)] = Line("", Blank)
         THEN DropEmptyTail(SubSeq(b, 1, Len(b) - 1)) ELSE b

TrimBody(b) == DropEmptyTail(DropEmptyHead(b))

\* trimmed.startsWith("{") || trimmed.startsWith("[")
StartsLikeJson(trimmed) ==
    /\ trimmed # <<>>
    /\ trimmed[1].pre = ""
    /\ trimmed[1].data.kind \in {"object", "array", "[DONE]"}

\* JSON.parse(trimmed) returns a value iff the whole text is one JSON value
WholeBodyParses(trimmed) ==
    /\ Len(trimmed) = 1
    /\ trimmed[1].pre = ""
    /\ trimmed[1].data.kind \in {"object", "array"}

StartsWithData_NoSpace(line) == line.pre \in {"data: ", "data:"}

\* line.startsWith("data: ")
StartsWithData(line) == line.pre = "data: "

\* !data || data === "[DONE]"
SkippedPayload(data) == data.kind \in {"blank", "[DONE]"}

IsTerminal_DoneOnly(parsedLine) ==
    /\ parsedLine.kind = "object"
    /\ parsedLine.type = "response.done"

\* JSON.parse(data) succeeded, and parsed.type === "response.done" ||
\* parsed.type === "response.completed"; a payload that is not JSON throws
\* in JSON.parse, and `null` throws in parsed.type, both into line 220
IsTerminal(parsedLine) ==
    /\ parsedLine.kind = "object"
    /\ parsedLine.type \in {"response.done", "response.completed"}

(***************************************************************************)
(* parseSSEResponse, lines 205-223                                         *)
(***************************************************************************)
\* lines 206-212: await response.text() resolves, whole-body JSON attempt
parseSSEResponse_text ==
    /\ UNCHANGED <<fetchVars, searchVars>>
    /\ UNCHANGED pureVars
    /\ ppc = "text"
    /\ IF StartsLikeJson(TrimBody(body)) /\ WholeBodyParses(TrimBody(body))
       THEN /\ parsed' = Fulfilled(TrimBody(body)[1].data)
            /\ ppc' = "done"
            /\ lineNo' = lineNo
       ELSE /\ parsed' = parsed
            /\ ppc' = "lines"
            /\ lineNo' = 1
    /\ UNCHANGED body

\* line 206: await response.text() rejects
parseSSEResponse_text_error ==
    /\ UNCHANGED <<fetchVars, searchVars>>
    /\ UNCHANGED pureVars
    /\ ppc = "text"
    /\ parsed' = Rejected(Err("terminated", 0))
    /\ ppc' = "done"
    /\ UNCHANGED <<body, lineNo>>

\* lines 213-221: one iteration of the loop over text.split("\n")
parseSSEResponse_line ==
    /\ UNCHANGED <<fetchVars, searchVars>>
    /\ UNCHANGED pureVars
    /\ ppc = "lines"
    /\ lineNo <= Len(body)
    /\ LET line == body[lineNo] IN
        IF StartsWithData(line) /\ ~SkippedPayload(line.data)
           /\ IsTerminal(line.data)
        THEN /\ parsed' = Fulfilled(line.data.response)
             /\ ppc' = "done"
             /\ lineNo' = lineNo
        ELSE /\ parsed' = parsed
             /\ ppc' = ppc
             /\ lineNo' = lineNo + 1
    /\ UNCHANGED body

\* line 222
parseSSEResponse_fail ==
    /\ UNCHANGED <<fetchVars, searchVars>>
    /\ UNCHANGED pureVars
    /\ ppc = "lines"
    /\ lineNo > Len(body)
    /\ parsed' = Rejected(Err("Failed to parse OpenAI SSE response", 0))
    /\ ppc' = "done"
    /\ UNCHANGED <<body, lineNo>>

InitParse ==
    /\ IdleFetch
    /\ IdleSearch
    /\ IdlePure
    /\ body \in Bodies(MaxLines)
    /\ ppc = "text"
    /\ lineNo = 0
    /\ parsed = Unset

NextParse ==
    \/ parseSSEResponse_text
    \/ parseSSEResponse_text_error
    \/ parseSSEResponse_line
    \/ parseSSEResponse_fail

SpecParse == InitParse /\ [][NextParse]_vars

(***************************************************************************)
(* Credentials                                                             *)
(***************************************************************************)
\* A credential string: the number of segments token.split(".") yields and
\* what JSON.parse of the base64-decoded second segment gives.
Token(parts, payload) == [kind |-> "key", parts |-> parts, payload |-> payload]

\* JavaScript values: undefined, and a string as its characters
Absent == [kind |-> "absent"]
Str(chars) == [kind |-> "string", chars |-> chars]

\* the decoded segment: text JSON.parse throws on, a JSON primitive, or an
\* object with its "https://api.openai.com/auth" property
NotJson == [json |-> "invalid"]
JObject(claim) == [json |-> "object", claim |-> claim]

\* a claim value that is an object, with its chatgpt_account_id property
ClaimObj(id) == [kind |-> "object", id |-> id]

OpaqueKey == Token(1, NotJson)
CodexJwt  == Token(3, JObject(ClaimObj(Str(<<"a", "c", "c", "t">>))))
CodexJwtNoAccount == Token(3, JObject(ClaimObj(Absent)))

\* !!value
Truthy(v) ==
    /\ v.kind \notin {"absent", "null", "false", "zero"}
    /\ ~(v.kind = "string" /\ v.chars = <<>>)

\* payload?.["https://api.openai.com/auth"]
AuthClaim(payload) ==
    IF payload.json = "object" THEN payload.claim ELSE Absent

isCodexJwt_AnySegments(token) ==
    /\ token.payload.json # "invalid"
    /\ Truthy(AuthClaim(token.payload))

\* isCodexJwt, lines 124-132; JSON.parse throwing is caught at line 129
isCodexJwt(token) ==
    /\ token.parts = 3
    /\ token.payload.json # "invalid"
    /\ Truthy(AuthClaim(token.payload))

\* claim?.chatgpt_account_id
AccountIdOf(claim) == IF claim.kind = "object" THEN claim.id ELSE Absent

extractAccountId_Untrimmed(token) ==
    IF token.parts # 3 \/ token.payload.json = "invalid" THEN Absent
    ELSE LET id == AccountIdOf(AuthClaim(token.payload))
         IN  IF id.kind = "string" /\ Trim(id.chars) # <<>>
             THEN Str(id.chars) ELSE Absent

\* extractAccountId, lines 134-144
extractAccountId(token) ==
    IF token.parts # 3 \/ token.payload.json = "invalid" THEN Absent
    ELSE LET id == AccountIdOf(AuthClaim(token.payload))
         IN  IF id.kind = "string" /\ Trim(id.chars) # <<>>
             THEN Str(Trim(id.chars)) ELSE Absent

\* the values of chatgpt_account_id, of the claim and of the payload
AccountIds ==
    {Absent, [kind |-> "number"]} \cup {Str(c) : c \in SeqsUpTo({" ", "a"}, MaxIdLen)}

Claims ==
    {Absent, [kind |-> "null"], [kind |-> "false"], [kind |-> "zero"],
     [kind |-> "true"], Str(<<>>), Str(<<"a">>)}
    \cup {ClaimObj(id) : id \in AccountIds}

Payloads ==
    {NotJson, [json |-> "null"], [json |-> "number"]}
    \cup {JObject(c) : c \in Claims}

Tokens == {Token(n, p) : n \in 1..MaxParts, p \in Payloads}

InitToken ==
    /\ IdleFetch
    /\ IdleSearch
    /\ IdleParse
    /\ tpc = "ready"
    /\ arg \in Tokens
    /\ ret = Unset

isCodexJwt_call ==
    /\ UNCHANGED <<fetchVars, searchVars, parseVars>>
    /\ tpc = "ready"
    /\ tpc' = "done"
    /\ ret' = Returned("isCodexJwt", isCodexJwt(arg))
    /\ UNCHANGED arg

extractAccountId_call ==
    /\ UNCHANGED <<fetchVars, searchVars, parseVars>>
    /\ tpc = "ready"
    /\ tpc' = "done"
    /\ ret' = Returned("extractAccountId", extractAccountId(arg))
    /\ UNCHANGED arg

NextToken ==
    \/ isCodexJwt_call
    \/ extractAccountId_call

SpecToken == InitToken /\ [][NextToken]_vars

AUTH_PROBE_ORDER == <<"openai-codex", "openai">>

\* process.env.WEBSEARCH_PROVIDER?.toLowerCase(); "" stands for unset
ForcedProviders == {"", "openai", "openai-codex", "anthropic"}

\* What getModel and ctx.modelRegistry.getApiKey give for a provider:
\* no model or no key, an exception, or a key.
RegistryOutcomes(providerId) ==
    IF providerId = "openai-codex"
    THEN {None, [kind |-> "throws"], CodexJwt, CodexJwtNoAccount}
    ELSE {None, OpaqueKey}

Envs ==
    [forced   : ForcedProviders,
     apiKey   : {None, OpaqueKey, CodexJwt, CodexJwtNoAccount},
     codex    : RegistryOutcomes("openai-codex"),
     openai   : RegistryOutcomes("openai"),
     piAi     : {"resolves", "rejects"}]

Queries == SeqsUpTo(Chars, MaxQueryLen)

Auth(provider, key) == [kind |-> "auth", provider |-> provider, apiKey |-> key]

RegistryKey(e, providerId) ==
    IF providerId = "openai-codex" THEN e.codex ELSE e.openai

\* line 100
ProbeSkipped(forced, providerId) ==
    forced # "" /\ providerId # forced /\ providerId # forced \o "-codex"

\* lines 99-117: the probe loop from index i on, then the env fallback
RECURSIVE Probe(_, _)
Probe(e, i) ==
    IF i > Len(AUTH_PROBE_ORDER)
    THEN IF e.forced = "" /\ e.apiKey.kind = "key"
         THEN Auth("openai", e.apiKey)
         ELSE None
    ELSE LET providerId == AUTH_PROBE_ORDER[i]
             key == RegistryKey(e, providerId)
         IN  IF ~ProbeSkipped(e.forced, providerId) /\ key.kind = "key"
             THEN Auth(providerId, key)
             ELSE Probe(e, i + 1)

(***************************************************************************)
(* web_search.execute, lines 435-470, and resolveAuth, lines 91-118        *)
(***************************************************************************)
InitSearch ==
    /\ IdleFetch
    /\ IdleParse
    /\ IdlePure
    /\ spc = "execute"
    /\ sparams \in [query : Queries]
    /\ env \in Envs
    /\ auth = Unset
    /\ request = Unset
    /\ stimer = "unset"
    /\ sout = Unset

\* lines 436-439 and 92-96: validation, then resolveAuth up to its import
web_search_execute ==
    /\ UNCHANGED <<fetchVars, parseVars>>
    /\ UNCHANGED pureVars
    /\ spc = "execute"
    /\ IF Trim(sparams.query) = <<>>
       THEN /\ sout' = ToolError("Error: empty query.", None)
            /\ spc' = "returned"
            /\ auth' = auth
       ELSE IF env.forced = "openai" /\ env.apiKey.kind = "key"
       THEN /\ auth' = Auth("openai", env.apiKey)
            /\ spc' = "resolved"
            /\ sout' = sout
       ELSE /\ auth' = auth
            /\ spc' = "import"
            /\ sout' = sout
    /\ UNCHANGED <<sparams, env, request, stimer>>

\* line 98: await import("@mariozechner/pi-ai") resolves; lines 99-117
resolveAuth_probe ==
    /\ UNCHANGED <<fetchVars, parseVars>>
    /\ UNCHANGED pureVars
    /\ spc = "import"
    /\ env.piAi = "resolves"
    /\ auth' = Probe(env, 1)
    /\ spc' = "resolved"
    /\ UNCHANGED <<sparams, env, request, stimer, sout>>

\* line 98: the import rejects; neither resolveAuth nor line 439 catches
resolveAuth_import_error ==
    /\ UNCHANGED <<fetchVars, parseVars>>
    /\ UNCHANGED pureVars
    /\ spc = "import"
    /\ env.piAi = "rejects"
    /\ sout' = Thrown(Err("Cannot find package '@mariozechner/pi-ai'", 0))
    /\ spc' = "returned"
    /\ UNCHANGED <<sparams, env, auth, request, stimer>>

(***************************************************************************)
(* openaiWebSearch, lines 152-203                                          *)
(***************************************************************************)
\* lines 167-181
SearchRequest_OriginatorWithAccount(apiKey) ==
    IF isCodexJwt(apiKey)
    THEN [kind      |-> "request",
          url       |-> "https://chatgpt.com/backend-api/codex/responses",
          accountId |-> extractAccountId(apiKey),
          originator|-> IF extractAccountId(apiKey) # Absent THEN "pi" ELSE ""]
    ELSE [kind      |-> "request",
          url       |-> "https://api.openai.com/v1/responses",
          accountId |-> Absent,
          originator|-> ""]

\* lines 160-181: the url and the two headers of the session path; a header
\* that is not set is Absent (account id) or "" (originator)
SearchRequest(apiKey) ==
    IF isCodexJwt(apiKey)
    THEN [kind      |-> "request",
          url       |-> "https://chatgpt.com/backend-api/codex/responses",
          accountId |-> extractAccountId(apiKey),
          originator|-> "pi"]
    ELSE [kind      |-> "request",
          url       |-> "https://api.openai.com/v1/responses",
          accountId |-> Absent,
          originator|-> ""]

\* lines 440-450 and 153-188: the credential check, then the request
web_search_authed ==
    /\ UNCHANGED <<fetchVars, parseVars>>
    /\ UNCHANGED pureVars
    /\ spc = "resolved"
    /\ IF auth.kind # "auth"
       THEN /\ sout' = ToolError("Error: No API key.", None)
            /\ spc' = "returned"
            /\ UNCHANGED <<request, stimer>>
       ELSE /\ request' = SearchRequest(auth.apiKey)
            /\ stimer' = "armed"
            /\ spc' = "fetch_inflight"
            /\ sout' = sout
    /\ UNCHANGED <<sparams, env, auth>>

\* the timer callback of line 184 aborts the request: lines 189-192, 467-469
openaiWebSearch_abort ==
    /\ UNCHANGED <<fetchVars, parseVars>>
    /\ UNCHANGED pureVars
    /\ spc = "fetch_inflight"
    /\ stimer = "armed"
    /\ stimer' = "fired"
    /\ sout' = ToolError("Search failed", Err("This operation was aborted", 0))
    /\ spc' = "returned"
    /\ UNCHANGED <<sparams, env, auth, request>>

\* await fetch(...) rejects: lines 189-192, 467-469
openaiWebSearch_network_error ==
    /\ UNCHANGED <<fetchVars, parseVars>>
    /\ UNCHANGED pureVars
    /\ spc = "fetch_inflight"
    /\ stimer' = "cleared"
    /\ sout' = ToolError("Search failed", Err("fetch failed", 0))
    /\ spc' = "returned"
    /\ UNCHANGED <<sparams, env, auth, request>>

\* a non-2xx response: lines 194-198, 467-469
openaiWebSearch_http_error ==
    /\ UNCHANGED <<fetchVars, parseVars>>
    /\ UNCHANGED pureVars
    /\ spc = "fetch_inflight"
    /\ \E status \in Statuses :
        /\ ~Ok(status)
        /\ sout' = ToolError("Search failed", Err("OpenAI API error", status))
    /\ stimer' = "cleared"
    /\ spc' = "returned"
    /\ UNCHANGED <<sparams, env, auth, request>>

\* a 2xx response: line 200 calls parseSSEResponse, the timer still armed
openaiWebSearch_response ==
    /\ UNCHANGED fetchVars
    /\ UNCHANGED pureVars
    /\ spc = "fetch_inflight"
    /\ body' \in Bodies(MaxSearchLines)
    /\ ppc' = "text"
    /\ spc' = "parsing"
    /\ UNCHANGED <<sparams, env, auth, request, stimer, sout, lineNo, parsed>>

\* lines 451-466
ToolResults(results) ==
    [kind |-> "response", isError |-> FALSE,
     text |-> IF results = <<>> THEN "No results found" ELSE "results",
     cause |-> None, method |-> "", linkCount |-> Len(results)]

\* lines 200-202 and 451-469, once parseSSEResponse has settled
openaiWebSearch_parsed ==
    /\ UNCHANGED <<fetchVars, parseVars>>
    /\ UNCHANGED pureVars
    /\ spc = "parsing"
    /\ ppc = "done"
    /\ IF parsed.kind = "rejected"
       THEN /\ sout' = ToolError("Search failed", parsed.error)
            /\ stimer' = stimer
       ELSE /\ stimer' = "cleared"
            /\ sout' = IF ExtractThrows(parsed.value)
                       THEN ToolError("Search failed",
                                Err("Cannot read properties of null", 0))
                       ELSE ToolResults(extractSearchResults(parsed.value))
    /\ spc' = "returned"
    /\ UNCHANGED <<sparams, env, auth, request>>

NextSearch ==
    \/ web_search_execute
    \/ resolveAuth_probe
    \/ resolveAuth_import_error
    \/ web_search_authed
    \/ openaiWebSearch_abort
    \/ openaiWebSearch_network_error
    \/ openaiWebSearch_http_error
    \/ openaiWebSearch_response
    \/ openaiWebSearch_parsed
    \/ parseSSEResponse_text
    \/ parseSSEResponse_text_error
    \/ parseSSEResponse_line
    \/ parseSSEResponse_fail

SpecSearch == InitSearch /\ [][NextSearch]_vars

(***************************************************************************)
(* Properties of parseSSEResponse                                          *)
(***************************************************************************)
\* line i of the body is an event whose type is terminal
TerminalAt(i) ==
    /\ body[i].pre = "data: "
    /\ body[i].data.kind = "object"
    /\ body[i].data.type \in {"response.done", "response.completed"}

FirstTerminalAt(i) ==
    /\ i \in 1..Len(body)
    /\ TerminalAt(i)
    /\ \A j \in 1..(i - 1) : ~TerminalAt(j)

TextWasRead == ~(parsed.kind = "rejected" /\ parsed.error.msg = "terminated")

\* C10: once parseSSEResponse has finished on a body that was read and that
\* contains a terminal event, it has returned the `response` field of the
\* first terminal event in line order, whatever lines precede it.
C10_FirstTerminalResponse ==
    \A i \in 1..Len(body) :
        (ppc = "done" /\ TextWasRead /\ FirstTerminalAt(i))
        => parsed = Fulfilled(body[i].data.response)

C10_Witness ==
    /\ ppc = "done"
    /\ body = << Line("data: ", BadJson),
                 Line("data: ", Event("response.completed", RespEmpty)),
                 Line("data: ", Event("response.done", RespCited)) >>
    /\ parsed = Fulfilled(RespEmpty)

NoTerminalEvent == \A i \in 1..Len(body) : ~TerminalAt(i)

\* the body is, apart from empty lines around it, one JSON object or array
WholeJsonBody ==
    \E i \in 1..Len(body) :
        /\ body[i].pre = ""
        /\ body[i].data.kind \in {"object", "array"}
        /\ \A j \in 1..Len(body) : j # i => body[j] = Line("", Blank)

\* C11 as stated: parseSSEResponse fails for every body that contains no
\* terminal event; it returns a value only if a terminal event was found.
C11_FailsWithoutTerminal ==
    (ppc = "done" /\ NoTerminalEvent) => parsed.kind = "rejected"

\* C11, amended: parseSSEResponse fails for every body that contains no
\* terminal event and is not as a whole one JSON object or array; it returns
\* a value only if a terminal event was found or the whole body parsed.
C11_FailsWithoutTerminalOrWholeJson ==
    (ppc = "done" /\ NoTerminalEvent /\ ~WholeJsonBody)
    => parsed.kind = "rejected"

C11_Witness ==
    /\ ppc = "done"
    /\ body = << Line("data: ", Event("response.in_progress", None)),
                 Line("", RespNullItem),
                 Line("data: ", Sentinel) >>
    /\ parsed = Rejected(Err("Failed to parse OpenAI SSE response", 0))

(***************************************************************************)
(* Properties of extractSearchResults                                      *)
(***************************************************************************)
\* the normalized urls an item sequence cites, in source order
RECURSIVE CitedUrls(_)
CitedUrls(items) ==
    IF items = <<>> THEN <<>>
    ELSE LET cites == SelectSeq(Head(items).annotations,
                          LAMBDA a : a.type = "url_citation" /\ a.url # <<>>)
         IN  (IF Head(items).type = "message"
              THEN [i \in 1..Len(cites) |-> NormalizeUrl(cites[i].url)]
              ELSE <<>>) \o CitedUrls(Tail(items))

\* the normalized urls of the web_search_call sources, in source order
RECURSIVE SourceUrls(_)
SourceUrls(items) ==
    IF items = <<>> THEN <<>>
    ELSE LET srcs == SelectSeq(Head(items).sources, LAMBDA u : u # <<>>)
         IN  (IF Head(items).type = "web_search_call"
              THEN [i \in 1..Len(srcs) |-> NormalizeUrl(srcs[i])]
              ELSE <<>>) \o SourceUrls(Tail(items))

\* the first occurrences of a sequence's elements, in order
RECURSIVE FirstOccurrences(_)
FirstOccurrences(s) ==
    IF s = <<>> THEN <<>>
    ELSE LET front == FirstOccurrences(SubSeq(s, 1, Len(s) - 1))
         IN  IF \E i \in 1..Len(front) : front[i] = s[Len(s)]
             THEN front ELSE Append(front, s[Len(s)])

ExtractReturned ==
    /\ tpc = "done"
    /\ ret.kind = "fulfilled"
    /\ arg.kind = "object"
    /\ arg.output.kind = "array"

RECURSIVE FullyNormalized(_)
FullyNormalized(url) ==
    IF url # <<>> /\ url[Len(url)] = "?utm_source=openai"
    THEN FullyNormalized(SubSeq(url, 1, Len(url) - 1))
    ELSE url

\* C23: every url extractSearchResults returns is a fixed point of the
\* normalization, none still ends with ?utm_source=openai, and no two
\* results have the same fully normalized url.
C23_ResultUrlsAreFixedPoints ==
    ExtractReturned =>
        /\ \A i \in 1..Len(ret.value) :
               /\ NormalizeUrl(ret.value[i].url) = ret.value[i].url
               /\ ret.value[i].url[Len(ret.value[i].url)] # "?utm_source=openai"
        /\ \A i, j \in 1..Len(ret.value) :
               i # j => FullyNormalized(ret.value[i].url)
                        # FullyNormalized(ret.value[j].url)

(***************************************************************************)
(* Properties of the token classifier                                      *)
(***************************************************************************)
IsCodexJwtReturned == tpc = "done" /\ ret.fn = "isCodexJwt"

\* the token has three segments and the second decodes to a JSON object
ThreeSegmentObject == arg.parts = 3 /\ arg.payload.json = "object"

ExtractAccountIdReturned == tpc = "done" /\ ret.fn = "extractAccountId"

\* the token embeds a string account id that is not empty after trimming
EmbedsAccountId ==
    /\ ThreeSegmentObject
    /\ arg.payload.claim.kind = "object"
    /\ arg.payload.claim.id.kind = "string"
    /\ \E i \in 1..Len(arg.payload.claim.id.chars) :
           ~IsSpace(arg.payload.claim.id.chars[i])

EmbeddedId == arg.payload.claim.id.chars

\* C14 as stated: extractAccountId returns the embedded account id exactly
\* whenever it is present and non-empty after trimming, and nothing otherwise.
C14_ReturnsEmbeddedIdExactly ==
    ExtractAccountIdReturned =>
        ret.value = IF EmbedsAccountId THEN Str(EmbeddedId) ELSE Absent

\* C14, amended: extractAccountId returns the embedded account id without the
\* white space around it (the embedded string itself when it has none)
\* whenever the id is present and non-empty after trimming, and nothing
\* for every other token.
C14_ReturnsEmbeddedIdTrimmed ==
    ExtractAccountIdReturned =>
        IF EmbedsAccountId
        THEN /\ ret.value.kind = "string"
             /\ ~IsSpace(ret.value.chars[1])
             /\ ~IsSpace(ret.value.chars[Len(ret.value.chars)])
             /\ \E i, j \in 0..Len(EmbeddedId) :
                    /\ i + Len(ret.value.chars) + j = Len(EmbeddedId)
                    /\ \A k \in 1..i : IsSpace(EmbeddedId[k])
                    /\ \A k \in 1..j : IsSpace(EmbeddedId[Len(EmbeddedId) + 1 - k])
                    /\ SubSeq(EmbeddedId, i + 1, Len(EmbeddedId) - j) = ret.value.chars
        ELSE ret.value = Absent

C14_Witness ==
    /\ ExtractAccountIdReturned
    /\ arg = Token(3, JObject(ClaimObj(Str(<<" ", "a">>))))
    /\ ret.value = Str(<<"a">>)

(***************************************************************************)
(* Properties of extractSnippetAround                                      *)
(***************************************************************************)
\* String.prototype.includes over texts
ContainsText(t, sub) ==
    \E i \in 0..(Len(t) - Len(sub)) : SubSeq(t, i + 1, i + Len(sub)) = sub

SnippetReturned == tpc = "done" /\ ret.fn = "extractSnippetAround"

\* the link is the only markup of the text
OnlyLink ==
    \A i \in 1..Len(arg.pre \o arg.post) :
        (arg.pre \o arg.post)[i].c \notin {"[", "]", "(", ")"}

\* the text as a reader sees it: the link replaced by its label, trimmed
Visible == TrimText(arg.pre \o arg.label \o arg.post)

\* C15 as stated: for every text that contains an inline link,
\* extractSnippetAround(text, 0, len(text)) contains the label and does not
\* contain the target.
C15_LabelKeptTargetGone ==
    SnippetReturned =>
        /\ ContainsText(ret.value, arg.label)
        /\ ~ContainsText(ret.value, arg.target)

\* C15, amended: for every text whose only brackets and parentheses are those
\* of one inline link and whose visible form has at most 300 characters,
\* extractSnippetAround(text, 0, len(text)) is the visible form: it contains
\* the label, less the white space trimmed at the ends of the snippet, and
\* contains the target only if the visible form does.
C15_VisibleTextOfSingleLink ==
    (SnippetReturned /\ OnlyLink /\ Length(Visible) <= SnippetMax) =>
        /\ ret.value = Visible
        /\ ContainsText(ret.value, TrimText(arg.label))
        /\ ContainsText(ret.value, arg.target) => ContainsText(Visible, arg.target)

C15_Witness ==
    /\ SnippetReturned
    /\ arg = [pre |-> Text(<<"a">>), label |-> Text(<<" ", "a">>),
              target |-> Text(<<"u">>), post |-> <<>>]
    /\ ret.value = Text(<<"a", " ", "a">>)

(***************************************************************************)
(* Properties of the link list                                             *)
(***************************************************************************)
LinksReturned == tpc = "done" /\ ret.fn = "htmlToMarkdown"

\* the list has no duplicate and keeps the order in which the links first
\* appear among the hrefs
NoDuplicateFirstSeen ==
    /\ \A i, j \in 1..Len(ret.value) : i # j => ret.value[i] # ret.value[j]
    /\ \A i, j \in 1..Len(ret.value) :
           i < j =>
           \E m \in 1..Len(arg.hrefs) :
               /\ Resolve(arg.hrefs[m], arg.base) = ret.value[i]
               /\ \A n \in 1..m : Resolve(arg.hrefs[n], arg.base) # ret.value[j]

\* C16: every entry of the link list of htmlToMarkdown is an absolute url
\* whose scheme is http or https, however its href was written, and the
\* list has no duplicate and keeps first-seen order.
C16_OnlyHttpLinksNoDuplicates ==
    LinksReturned =>
        /\ \A i \in 1..Len(ret.value) :
               /\ ret.value[i].kind = "url"
               /\ ret.value[i].scheme \in
                      {<<"h", "t", "t", "p">>, <<"h", "t", "t", "p", "s">>}
        /\ NoDuplicateFirstSeen

\* the part of C16 the Set of line 307 gives
C16_NoDuplicatesFirstSeen == LinksReturned => NoDuplicateFirstSeen

(***************************************************************************)
(* Properties of the search request                                        *)
(***************************************************************************)
SessionUrl == "https://chatgpt.com/backend-api/codex/responses"
PublicUrl == "https://api.openai.com/v1/responses"

RequestIssued == spc # "idle" /\ request.kind = "request"

\* C17 as stated: the request targets the session endpoint and carries both
\* the account-id header and the originator marker exactly when the
\* credential is a structured session token; otherwise it targets the public
\* endpoint and carries neither.
C17_BothHeadersIffSessionToken ==
    RequestIssued =>
        IF isCodexJwt(auth.apiKey)
        THEN /\ request.url = SessionUrl
             /\ request.accountId # Absent
             /\ request.originator = "pi"
        ELSE /\ request.url = PublicUrl
             /\ request.accountId = Absent
             /\ request.originator = ""

\* C17, amended: the request targets the session endpoint and carries the
\* originator marker exactly when the credential is a structured session
\* token, and carries the account-id header exactly when in addition the
\* token embeds an account id; otherwise it targets the public endpoint and
\* carries neither header.
C17_AccountHeaderOnlyWithAccountId ==
    RequestIssued =>
        IF isCodexJwt(auth.apiKey)
        THEN /\ request.url = SessionUrl
             /\ request.originator = "pi"
             /\ request.accountId = extractAccountId(auth.apiKey)
             /\ (request.accountId # Absent) <=>
                    (/\ auth.apiKey.payload.claim.kind = "object"
                     /\ auth.apiKey.payload.claim.id.kind = "string")
        ELSE /\ request.url = PublicUrl
             /\ request.accountId = Absent
             /\ request.originator = ""

C17_Witness ==
    /\ RequestIssued
    /\ auth.apiKey = CodexJwtNoAccount
    /\ request.url = SessionUrl
    /\ request.originator = "pi"
    /\ request.accountId = Absent

(***************************************************************************)
(* Properties of resolveAuth and of the timers                             *)
(***************************************************************************)
\* C19: with WEBSEARCH_PROVIDER set to openai, resolveAuth returns an openai
\* credential or none, never a credential of another provider.
C19_ForcedOpenaiOnlyOpenai ==
    (spc # "idle" /\ env.forced = "openai" /\ auth.kind = "auth")
    => auth.provider = "openai"

\* C20: no fetchStatic or openaiWebSearch call ends with its timer armed,
\* whether it ends in success, a network error, a non-2xx response or a
\* failure to parse the body.
C20_NoTimerArmedAtExit ==
    /\ spc = "returned" => stimer # "armed"
    /\ fpc \notin {"idle", "fetch_inflight"} => timer # "armed"

\* the fetchStatic half of C20: lines 327 and 335 clear the timer on both
\* ways out of the fetch
C20_FetchStaticTimerDisarmed ==
    fpc \notin {"idle", "fetch_inflight"} => timer # "armed"

(***************************************************************************)
(* Properties of the policy hook                                           *)
(***************************************************************************)
DefaultToggles == arg.env.enforce = "" /\ arg.env.blockBash = ""

C22_EachStepAtMostOnce ==
    /\ Count("fetchStatic") <= 1
    /\ Count("fetchWithPlaywright") <= 1
    /\ Count("launch") <= 1
    /\ Count("htmlToMarkdown") <= 2
    /\ \A i, j \in 1..Len(calls) :
           (i < j /\ calls[i] = "htmlToMarkdown" /\ calls[j] = "htmlToMarkdown")
           => \E k \in (i + 1)..(j - 1) : calls[k] = "fetchWithPlaywright"
    /\ (fpc # "idle" /\ fparams.playwright = "true") => Count("fetchStatic") = 0

\* both tiers ran, each with its own extraction
C22_Witness ==
    /\ fpc = "returned"
    /\ TierCalls = <<"fetchStatic", "fetchWithPlaywright">>
    /\ Count("htmlToMarkdown") = 2

\* C21: while the light fetch is in flight, from the request until the body
\* has been read, its abort timer is armed, so a stall at any point is cut
\* short by the timeout.
C21_TimerArmedWhileInFlight ==
    fpc \in {"fetch_inflight", "text_inflight"} => timer = "armed"

\* the part of C21 that holds: the timer is armed until the headers arrive
C21_TimerArmedUntilHeaders == fpc = "fetch_inflight" => timer = "armed"

(***************************************************************************)
(* Properties of the tool boundary                                         *)
(***************************************************************************)
\* C8: every finished invocation of web_search.execute or web_fetch.execute
\* has handed the host a structured response; no exception reaches the host,
\* whichever step failed.
C8_AlwaysStructuredResponse ==
    /\ spc = "returned" => sout.kind = "response"
    /\ fpc = "returned" => fout.kind = "response"

\* the web_fetch half of C8, which the try block of lines 494-531 gives
C8_FetchAlwaysStructuredResponse ==
    fpc = "returned" => fout.kind = "response"

SearchValidated == Trim(sparams.query) # <<>> /\ auth.kind = "auth"

\* C9: web_search issues its request only if the trimmed query is non-empty
\* and a credential was resolved, web_fetch starts the light fetch or the
\* browser only if the trimmed url is non-empty, and in every other case the
\* tool returns an error-flagged response with no call made.
C9_NoCallBeforeValidation ==
    /\ (spc # "idle" /\ request.kind = "request") => SearchValidated
    /\ (fpc # "idle" /\ (calls # <<>> \/ browser # "none" \/ timer # "unset"))
       => Trim(fparams.url) # <<>>
    /\ (spc = "returned" /\ ~SearchValidated)
       => /\ sout.kind = "response"
          /\ sout.isError
          /\ request.kind = "unset"
    /\ (fpc = "returned" /\ Trim(fparams.url) = <<>>)
       => /\ fout.kind = "response"
          /\ fout.isError
          /\ calls = <<>>

\* the part of C9 that does not depend on how resolveAuth fails: no request,
\* fetch or browser launch without validated input
C9_NoCallWithoutValidInput ==
    /\ (spc # "idle" /\ request.kind = "request") => SearchValidated
    /\ (spc = "returned" /\ ~SearchValidated) => request.kind = "unset"
    /\ (fpc # "idle" /\ (calls # <<>> \/ browser # "none" \/ timer # "unset"))
       => Trim(fparams.url) # <<>>

====
